---- MODULE Spec2Model ----
(***************************************************************************)
(* Rise of Color: the playback engine of src/js/timeline.js, the color     *)
(* pipeline of src/js/colorProcessor.js, the cluster overlay of            *)
(* src/js/cluster_viz.js and the UI handlers of src/js/uiControls.js.      *)
(*                                                                         *)
(* JavaScript runs one handler at a time to completion; an async function  *)
(* runs synchronously up to its first pending await.  Each action below is *)
(* one task of the event loop: a UI event, an interval tick, a timeout, or *)
(* the completion of a fetch together with the continuations it resumes.   *)
(* The synchronous methods are operators from a world record (all the      *)
(* mutable objects) to the world record they leave behind.                 *)
(***************************************************************************)
EXTENDS Integers, Sequences, FiniteSets, TLC

VARIABLES
    file,          \* assets/unique_colors_history.json as served
    state,         \* the shared `state` object of visualization.js
    timeline,      \* Timeline's own fields
    clusterState,  \* the clusterState object of cluster_viz.js
    group,         \* renderer.group.children
    armed,         \* ids of the intervals armed by setInterval and not cleared
    pending,       \* loadData() calls in flight, with the continuation each resumes
    timeouts,      \* pending "hide loading overlay" timeouts of initVisualization
    dom,           \* the DOM properties the handlers read
    initPhase,     \* how far the init() of visualization.js has come
    threw          \* whether the last task ended in an uncaught exception

vars == <<file, state, timeline, clusterState, group, armed, pending, timeouts,
          dom, initPhase, threw>>

(***************************************************************************)
(* Bounds of the model                                                     *)
(***************************************************************************)
MaxYears == 3        \* year records in the served file
MaxInstances == 2    \* slots of the instanced buffers (2000000 in the code)
MaxPending == 2      \* loadData() calls in flight at once
MaxTimeouts == 1     \* pending "hide loading overlay" timeouts

(***************************************************************************)
(* Data                                                                    *)
(***************************************************************************)
\* packed 24-bit colors; the last one differs from Gray only above bit 23
Gray == 10 * 65536 + 10 * 256 + 10
Red == 200 * 65536 + 34 * 256 + 30
Green == 0 * 65536 + 200 * 256 + 0
GrayHigh == 16777216 + Gray

\* a year record of the file: color is absent in a malformed record
Rec(y, cs) == [year |-> y, hasColor |-> TRUE, color |-> cs]
Malformed(y) == [year |-> y, hasColor |-> FALSE, color |-> <<>>]

YearOf(n) == 1850 + 10 * (n - 1)

ColorLists == { <<Gray, Gray, Red>>, <<GrayHigh, Green>> }

RecordsAt(n) == { Rec(YearOf(n), cs) : cs \in ColorLists } \cup { Malformed(YearOf(n)) }

RECURSIVE Files(_)
Files(n) ==
    IF n = 0 THEN { <<>> }
    ELSE LET shorter == Files(n - 1)
         IN shorter \cup { Append(f, r) : f \in { g \in shorter : Len(g) = n - 1 },
                                          r \in RecordsAt(n) }

\* the example dataset of the specification's testable properties
ExampleFile ==
    << Rec(YearOf(1), <<Gray, Gray, Red>>), Rec(YearOf(2), <<GrayHigh, Green>>) >>

SliderYears == { 1850, 1855, 1860, 1870, 1880 }
KOptions == { 8, 16 }

\* download_data/yearly_clustered_colors.json: year -> the k values it has
YearClusters == (1850 :> {16}) @@ (1860 :> {8})

Max(S) == CHOOSE x \in S : \A y \in S : y <= x

(***************************************************************************)
(* ColorProcessor                                                          *)
(***************************************************************************)
\* the dedup key "r,g,b" of a packed color
ColorKey(packedColor) ==
    << (packedColor \div 65536) % 256, (packedColor \div 256) % 256, packedColor % 256 >>

\* the loop of processYear over yearData.color: acc = <<seen, yearColors>>
RECURSIVE ProcessColors(_, _, _)
ProcessColors(colors, seen, yearColors) ==
    IF colors = <<>> THEN <<seen, yearColors>>
    ELSE LET key == ColorKey(Head(colors))
         IN IF key \in seen
            THEN ProcessColors(Tail(colors), seen, yearColors)
            ELSE ProcessColors(Tail(colors), seen \cup {key},
                               Append(yearColors, [rgb |-> key]))

\* processYear: iterating a missing color field throws before anything is added
\* processYear with the dedup set consulted as it was when the year began
processYear_DedupPerYear(w, yearData) ==
    IF ~yearData.hasColor
    THEN [w EXCEPT !.threw = TRUE, !.yearColors = <<>>]
    ELSE LET fresh == SelectSeq(yearData.color,
                                LAMBDA c : ColorKey(c) \notin w.state.seen)
             samples == [n \in 1..Len(fresh) |-> [rgb |-> ColorKey(fresh[n])]]
         IN [w EXCEPT !.state.seen = @ \cup { ColorKey(fresh[n]) : n \in 1..Len(fresh) },
                      !.state.colorData = @ \o samples,
                      !.yearColors = samples]

\* processYear with the dedup set replaced by the keys of the year just read
processYear_SeenPerYear(w, yearData) ==
    IF ~yearData.hasColor
    THEN [w EXCEPT !.threw = TRUE, !.yearColors = <<>>]
    ELSE LET res == ProcessColors(yearData.color, w.state.seen, <<>>)
         IN [w EXCEPT !.state.seen = res[1] \ w.state.seen,
                      !.state.colorData = w.state.colorData \o res[2],
                      !.yearColors = res[2]]

processYear(w, yearData) ==
    IF ~yearData.hasColor THEN [w EXCEPT !.threw = TRUE, !.yearColors = <<>>]
    ELSE LET res == ProcessColors(yearData.color, w.state.seen, <<>>)
         IN [w EXCEPT !.state.seen = res[1],
                      !.state.colorData = w.state.colorData \o res[2],
                      !.yearColors = res[2]]

\* a typed-array write: an index past the end is ignored
SetSlot(buf, n, v) == IF n + 1 \in DOMAIN buf THEN [buf EXCEPT ![n + 1] = v] ELSE buf

RECURSIVE WriteSamples(_, _, _)
WriteSamples(buf, count, yearColors) ==
    IF yearColors = <<>> THEN <<buf, count>>
    ELSE WriteSamples(SetSlot(buf, count, Head(yearColors).rgb), count + 1,
                      Tail(yearColors))

\* addYearColors: write each new sample at instanceCount, then publish the count
\* addYearColors with the counter stopping at the capacity of the buffers
addYearColors_CountClamped(w, yearColors) ==
    LET spheres == w.state.instancedSpheres[1]
        res == WriteSamples(spheres.buf, w.state.instanceCount, yearColors)
        count == IF res[2] > MaxInstances THEN MaxInstances ELSE res[2]
    IN [w EXCEPT !.state.instancedSpheres = << [buf |-> res[1], count |-> count] >>,
                 !.state.instanceCount = count]

\* addYearColors with spheres.count set before the year's samples are written
addYearColors_CountFirst(w, yearColors) ==
    LET spheres == w.state.instancedSpheres[1]
        res == WriteSamples(spheres.buf, w.state.instanceCount, yearColors)
    IN [w EXCEPT !.state.instancedSpheres =
                     << [buf |-> res[1], count |-> w.state.instanceCount] >>,
                 !.state.instanceCount = res[2]]

addYearColors(w, yearColors) ==
    LET spheres == w.state.instancedSpheres[1]
        res == WriteSamples(spheres.buf, w.state.instanceCount, yearColors)
    IN [w EXCEPT !.state.instancedSpheres = << [buf |-> res[1], count |-> res[2]] >>,
                 !.state.instanceCount = res[2]]

(***************************************************************************)
(* cluster_viz.js                                                          *)
(***************************************************************************)
\* getYearClusters falling back to the nearest later year
getYearClusters_LaterYear(cs, year, k) ==
    IF ~cs.loaded THEN <<>>
    ELSE LET yc == cs.year_clusters
             later == { y \in DOMAIN yc : y >= year }
             first == CHOOSE x \in later : \A y \in later : x <= y
         IN IF year \in DOMAIN yc
            THEN (IF k \in yc[year] THEN <<year, k>> ELSE <<>>)
            ELSE IF later = {} THEN <<>>
            ELSE (IF k \in yc[first] THEN <<first, k>> ELSE <<>>)

\* getYearClusters: the snapshot <<year, k>> it returns, <<>> for null
getYearClusters(cs, year, k) ==
    IF ~cs.loaded THEN <<>>
    ELSE LET yc == cs.year_clusters
             earlier == { y \in DOMAIN yc : y <= year }
         IN IF year \in DOMAIN yc
            THEN (IF k \in yc[year] THEN <<year, k>> ELSE <<>>)
            ELSE IF earlier = {} THEN <<>>
            ELSE (IF k \in yc[Max(earlier)] THEN <<Max(earlier), k>> ELSE <<>>)

clearClusterVisualization(w) ==
    [w EXCEPT !.group.centroids = FALSE,
              !.clusterState.centroidMeshes = <<>>,
              !.clusterState.isActive = FALSE]

displayClusterSphere(w, year, k) ==
    LET w1 == clearClusterVisualization(w)
        clusterData == getYearClusters(w1.clusterState, year, k)
    IN IF clusterData = <<>> THEN w1
       ELSE [w1 EXCEPT !.clusterState.currentYear = year,
                       !.clusterState.currentK = k,
                       !.clusterState.centroidMeshes = clusterData,
                       !.group.centroids = TRUE,
                       !.clusterState.isActive = TRUE]

toggleClusterView(w, showClusters, year, k) ==
    IF showClusters THEN displayClusterSphere(w, year, k)
    ELSE clearClusterVisualization(w)

(***************************************************************************)
(* Renderer                                                                *)
(***************************************************************************)
\* a fresh InstancedMesh: zeroed typed arrays, count = the estimate
NewMesh == [buf |-> [n \in 1..MaxInstances |-> <<>>], count |-> MaxInstances]

\* state.instancedSpheres = renderer.setupShaderInstancedMesh(...): the new mesh
\* joins the group; the mesh it replaces stays in the group if it was there
setupShaderInstancedMesh(w) ==
    [w EXCEPT !.group.orphans =
                  IF w.group.current THEN @ \cup {w.state.instancedSpheres[1]} ELSE @,
              !.group.current = TRUE,
              !.state.instancedSpheres = << NewMesh >>]

(***************************************************************************)
(* Timeline                                                                *)
(***************************************************************************)
_stopTimer(w) ==
    IF w.state.timer # 0
    THEN [w EXCEPT !.armed = @ \ {w.state.timer}, !.state.timer = 0]
    ELSE w

\* setInterval returns an id no armed interval has
FreshTimer(ids) == CHOOSE n \in 1..(Cardinality(ids) + 1) : n \notin ids

\* _startTimer arming an interval without clearing the one state.timer names
_startTimer_KeepsOld(w) ==
    LET id == FreshTimer(w.armed)
    IN [w EXCEPT !.armed = @ \cup {id}, !.state.timer = id]

_startTimer(w) ==
    LET w1 == _stopTimer(w)
        id == FreshTimer(w1.armed)
    IN [w1 EXCEPT !.armed = @ \cup {id}, !.state.timer = id]

\* pause leaving the interval armed
pause_KeepsTimer(w) == [w EXCEPT !.state.playing = FALSE]

pause(w) == _stopTimer([w EXCEPT !.state.playing = FALSE])

_disposeThreeJsObjects(w) ==
    [w EXCEPT !.group = [current |-> FALSE, orphans |-> {}, centroids |-> FALSE]]

\* initVisualization up to `await this.loadData()`; `caller` is the async
\* function that resumes when this one has finished
initVisualizationStart(w, skipTimer, caller) ==
    LET w1 == _stopTimer(w)
    IN [w1 EXCEPT !.state.isLoading = TRUE,
                  !.dom.playDisabled = TRUE,
                  !.pending = Append(@, [skipTimer |-> skipTimer, caller |-> caller])]

\* initVisualization from the assignment of the loaded data to its end
initVisualizationRest(w, loaded, skipTimer) ==
    LET w1 == setupShaderInstancedMesh([w EXCEPT !.state.data = loaded])
        w2 == [w1 EXCEPT !.timeline.sliderInitialized = TRUE,
                         !.state.playing = TRUE]
        w3 == IF skipTimer THEN w2 ELSE _startTimer(w2)
    IN [w3 EXCEPT !.timeouts = @ + 1]

\* reset up to its await (all of it when state.isJumping)
reset(w, caller) ==
    LET w1 == pause(w)
        w2 == [w1 EXCEPT !.state.i = -1,
                         !.state.colorData = <<>>,
                         !.state.seen = {},
                         !.state.instanceCount = 0]
        w3 == _disposeThreeJsObjects(w2)
    IN IF ~w3.state.isJumping
       THEN initVisualizationStart(w3, w3.timeline.resettingFromPlay, caller)
       ELSE setupShaderInstancedMesh(w3)

\* the rest of play() after the end-of-timeline check
playRest(w) ==
    _startTimer([w EXCEPT !.state.playing = TRUE])

\* play up to its await (all of it when the cursor is not at the end)
play(w) ==
    IF w.state.playing THEN w
    ELSE IF w.state.i >= Len(w.state.data) - 1
    THEN reset([w EXCEPT !.timeline.resettingFromPlay = TRUE], "play")
    ELSE playRest(w)

step(w) ==
    IF w.state.i >= Len(w.state.data) - 1 THEN pause(w)
    ELSE LET w1 == [w EXCEPT !.state.i = @ + 1]
             yearData == w1.state.data[w1.state.i + 1]
             w2 == processYear(w1, yearData)
             w3 == addYearColors(w2, w2.yearColors)
         IN IF w2.threw THEN w2
            ELSE IF w3.clusterState.isActive
            THEN toggleClusterView(w3, TRUE, yearData.year, w3.clusterState.currentK)
            ELSE w3

\* the while loop of jumpToYear; an exception in step() leaves it
RECURSIVE StepUntil(_, _)
StepUntil(w, index) ==
    IF w.threw \/ ~(w.state.i < index) THEN w
    ELSE StepUntil(step(w), index)

\* jumpToYear calling reset() without entering jumping mode
jumpToYear_PlainReset(w, index) ==
    IF index + 1 \notin DOMAIN w.state.data THEN [w EXCEPT !.threw = TRUE]
    ELSE LET w1 == IF index < w.state.i
                   THEN [reset(w, "jump") EXCEPT !.state.i = -1]
                   ELSE w
         IN StepUntil(w1, index)

jumpToYear(w, index) ==
    IF index + 1 \notin DOMAIN w.state.data THEN [w EXCEPT !.threw = TRUE]
    ELSE LET w1 == IF index < w.state.i
                   THEN LET j1 == reset([w EXCEPT !.state.isJumping = TRUE], "jump")
                        IN [j1 EXCEPT !.state.i = -1, !.state.isJumping = FALSE]
                   ELSE w
         IN StepUntil(w1, index)

\* findIndex((item) => item.year >= targetYear), -1 when there is none
FindIndex(data, targetYear) ==
    LET hits == { n \in 1..Len(data) : data[n].year >= targetYear }
    IN IF hits = {} THEN -1 ELSE (CHOOSE n \in hits : \A m \in hits : n <= m) - 1

(***************************************************************************)
(* The event loop                                                          *)
(***************************************************************************)
World ==
    [state |-> state, timeline |-> timeline, clusterState |-> clusterState,
     group |-> group, armed |-> armed, pending |-> pending, timeouts |-> timeouts,
     dom |-> dom, threw |-> FALSE, yearColors |-> <<>>]

Commit(w) ==
    /\ state' = w.state
    /\ timeline' = w.timeline
    /\ clusterState' = w.clusterState
    /\ group' = w.group
    /\ armed' = w.armed
    /\ pending' = w.pending
    /\ timeouts' = w.timeouts
    /\ dom' = w.dom
    /\ threw' = w.threw

RemoveAt(s, k) == [n \in 1..(Len(s) - 1) |-> IF n < k THEN s[n] ELSE s[n + 1]]

\* the state after module evaluation: init() has run setupUI() and
\* initVisualization() up to its await
Init ==
    /\ file \in Files(MaxYears)
    /\ state = [data |-> <<>>, i |-> -1, playing |-> FALSE, timer |-> 0,
                colorData |-> <<>>, seen |-> {}, instanceCount |-> 0,
                instancedSpheres |-> <<>>, isLoading |-> TRUE, isJumping |-> FALSE]
    /\ timeline = [resettingFromPlay |-> FALSE, sliderInitialized |-> FALSE]
    /\ clusterState = [isActive |-> FALSE, currentK |-> 6, currentYear |-> 0,
                       loaded |-> FALSE, year_clusters |-> <<>>,
                       centroidMeshes |-> <<>>]
    /\ group = [current |-> FALSE, orphans |-> {}, centroids |-> FALSE]
    /\ armed = {}
    /\ pending = << [skipTimer |-> FALSE, caller |-> "init"] >>
    /\ timeouts = 0
    /\ dom = [playDisabled |-> TRUE, toggleText |-> "Show Clusters", kSelect |-> 16]
    /\ initPhase = "loading"
    /\ threw = FALSE

\* a loadData() resolves with `loaded`: initVisualization runs to its end, then
\* the async function awaiting it (reset, and play awaiting reset) resumes
Resume(k, loaded) ==
    LET p == pending[k]
        w1 == initVisualizationRest([World EXCEPT !.pending = RemoveAt(@, k)],
                                    loaded, p.skipTimer)
    IN IF p.caller = "play"
       THEN playRest([w1 EXCEPT !.timeline.resettingFromPlay = FALSE])
       ELSE w1

LoadCompletes(k, loaded) ==
    /\ timeouts < MaxTimeouts
    /\ Commit(Resume(k, loaded))
    /\ initPhase' = IF pending[k].caller = "init" THEN "clusters" ELSE initPhase
    /\ UNCHANGED file

LoadSucceeds == \E k \in 1..Len(pending) : LoadCompletes(k, file)

\* fetch or response.json() rejects: loadData returns []
LoadFails == \E k \in 1..Len(pending) : LoadCompletes(k, <<>>)

\* loadClusterData() resolves; init() sets up the cluster controls
ClusterLoadSucceeds ==
    /\ initPhase = "clusters"
    /\ initPhase' = "ready"
    /\ clusterState' = [clusterState EXCEPT !.loaded = TRUE,
                                            !.year_clusters = YearClusters]
    /\ threw' = FALSE
    /\ UNCHANGED <<file, state, timeline, group, armed, pending, timeouts, dom>>

ClusterLoadFails ==
    /\ initPhase = "clusters"
    /\ initPhase' = "noClusters"
    /\ threw' = FALSE
    /\ UNCHANGED <<file, state, timeline, clusterState, group, armed, pending,
                   timeouts, dom>>

\* init() has reached animate(): requestAnimationFrame keeps render ticks coming
AnimateRunning == initPhase \in { "ready", "noClusters" }

\* a render tick: a task of its own, which reads the group and writes no state
RenderTick ==
    /\ AnimateRunning
    /\ Commit(World)
    /\ UNCHANGED <<file, initPhase>>

\* the setTimeout callback of initVisualization
HideLoadingOverlay ==
    /\ timeouts > 0
    /\ Commit([World EXCEPT !.timeouts = @ - 1,
                            !.state.isLoading = FALSE,
                            !.dom.playDisabled = FALSE])
    /\ UNCHANGED <<file, initPhase>>

\* the interval callback () => this.step()
TimerTick ==
    /\ armed # {}
    /\ Commit(step(World))
    /\ UNCHANGED <<file, initPhase>>

\* the click listener of the play/pause button
playButtonClick(w) ==
    IF ~w.state.playing
    THEN play(IF w.state.i >= Len(w.state.data) - 1 THEN reset(w, "reset") ELSE w)
    ELSE pause(w)

ClickPlayPause ==
    /\ ~dom.playDisabled
    /\ Len(playButtonClick(World).pending) <= MaxPending
    /\ Commit(playButtonClick(World))
    /\ UNCHANGED <<file, initPhase>>

\* the input listener of the year slider
sliderInput(w, targetYear) ==
    LET targetIndex == FindIndex(w.state.data, targetYear)
    IN IF targetIndex = -1 THEN w
       ELSE jumpToYear(IF w.state.playing THEN pause(w) ELSE w, targetIndex)

SliderTo(targetYear) ==
    /\ timeline.sliderInitialized
    /\ Commit(sliderInput(World, targetYear))
    /\ UNCHANGED <<file, initPhase>>

SliderInput == \E targetYear \in SliderYears : SliderTo(targetYear)

\* the click listener of the cluster toggle button
toggleButtonClick(w) ==
    IF w.dom.toggleText = "Show Clusters"
    THEN LET w1 == [w EXCEPT !.dom.toggleText = "Show All Colors"]
         IN IF w1.state.i + 1 \notin DOMAIN w1.state.data
            THEN [w1 EXCEPT !.threw = TRUE]
            ELSE toggleClusterView(w1, TRUE, w1.state.data[w1.state.i + 1].year,
                                   w1.dom.kSelect)
    ELSE toggleClusterView([w EXCEPT !.dom.toggleText = "Show Clusters"],
                           FALSE, 0, 0)

ClickToggleClusters ==
    /\ initPhase = "ready"
    /\ Commit(toggleButtonClick(World))
    /\ UNCHANGED <<file, initPhase>>

\* the change listener of the k selector
kSelectChange(w, k) ==
    LET w1 == [w EXCEPT !.dom.kSelect = k]
    IN IF ~w1.clusterState.isActive THEN w1
       ELSE IF w1.state.i + 1 \notin DOMAIN w1.state.data
       THEN [w1 EXCEPT !.threw = TRUE]
       ELSE toggleClusterView(w1, TRUE, w1.state.data[w1.state.i + 1].year, k)

ChangeK ==
    \E k \in KOptions :
        /\ initPhase = "ready"
        /\ k # dom.kSelect
        /\ Commit(kSelectChange(World, k))
        /\ UNCHANGED <<file, initPhase>>

(***************************************************************************)
(* The public methods of the exported timeline, called directly            *)
(***************************************************************************)
CallPlay ==
    /\ Len(play(World).pending) <= MaxPending
    /\ Commit(play(World))
    /\ UNCHANGED <<file, initPhase>>

CallPause ==
    /\ Commit(pause(World))
    /\ UNCHANGED <<file, initPhase>>

CallReset ==
    /\ Len(pending) < MaxPending
    /\ Commit(reset(World, "reset"))
    /\ UNCHANGED <<file, initPhase>>

CallStep ==
    /\ Commit(step(World))
    /\ UNCHANGED <<file, initPhase>>

JumpTo(index) ==
    /\ index + 1 \in DOMAIN state.data
    /\ Commit(jumpToYear(World, index))
    /\ UNCHANGED <<file, initPhase>>

CallJumpToYear == \E index \in 0..(MaxYears - 1) : JumpTo(index)

\* what the shipped page does to the timeline: no direct method calls, and the
\* cluster overlay is never opened
PageEvent ==
    \/ LoadSucceeds
    \/ LoadFails
    \/ HideLoadingOverlay
    \/ TimerTick
    \/ ClickPlayPause
    \/ SliderInput

\* the page events and direct calls of the timeline's methods
Next ==
    \/ LoadSucceeds
    \/ LoadFails
    \/ HideLoadingOverlay
    \/ TimerTick
    \/ ClickPlayPause
    \/ SliderInput
    \/ CallPlay
    \/ CallPause
    \/ CallReset
    \/ CallStep
    \/ CallJumpToYear

\* everything, the cluster overlay included
NextOverlay ==
    \/ LoadSucceeds
    \/ LoadFails
    \/ ClusterLoadSucceeds
    \/ ClusterLoadFails
    \/ RenderTick
    \/ HideLoadingOverlay
    \/ TimerTick
    \/ ClickPlayPause
    \/ SliderInput
    \/ ClickToggleClusters
    \/ ChangeK
    \/ CallPlay
    \/ CallPause
    \/ CallReset
    \/ CallStep
    \/ CallJumpToYear

InitOverlay == Init /\ file = ExampleFile

Spec == Init /\ [][Next]_vars

SpecPage == Init /\ [][PageEvent]_vars

SpecOverlay == InitOverlay /\ [][NextOverlay]_vars

(***************************************************************************)
(* Playback left alone: the page has loaded a non-empty file, which leaves *)
(* the timeline playing, the cursor has been moved to any year by          *)
(* jumpToYear, and from then on only the interval and the overlay timeout  *)
(* fire.  The browser keeps firing an armed interval.                      *)
(***************************************************************************)
\* the objects as init() leaves them once the first load has completed with f
Loaded(f) ==
    initVisualizationRest(
        [state |-> [data |-> <<>>, i |-> -1, playing |-> FALSE, timer |-> 0,
                    colorData |-> <<>>, seen |-> {}, instanceCount |-> 0,
                    instancedSpheres |-> <<>>, isLoading |-> TRUE,
                    isJumping |-> FALSE],
         timeline |-> [resettingFromPlay |-> FALSE, sliderInitialized |-> FALSE],
         clusterState |-> [isActive |-> FALSE, currentK |-> 6, currentYear |-> 0,
                           loaded |-> FALSE, year_clusters |-> <<>>,
                           centroidMeshes |-> <<>>],
         group |-> [current |-> FALSE, orphans |-> {}, centroids |-> FALSE],
         armed |-> {}, pending |-> <<>>, timeouts |-> 0,
         dom |-> [playDisabled |-> TRUE, toggleText |-> "Show Clusters",
                  kSelect |-> 16],
         threw |-> FALSE, yearColors |-> <<>>],
        f, FALSE)

InitPlayback ==
    \E f \in Files(MaxYears) \ { <<>> } :
        \E index \in -1..(Len(f) - 1) :
            LET w == IF index = -1 THEN Loaded(f) ELSE jumpToYear(Loaded(f), index)
            IN /\ file = f
               /\ state = w.state
               /\ timeline = w.timeline
               /\ clusterState = w.clusterState
               /\ group = w.group
               /\ armed = w.armed
               /\ pending = w.pending
               /\ timeouts = w.timeouts
               /\ dom = w.dom
               /\ initPhase = "noClusters"
               /\ threw = FALSE

NextPlayback ==
    \/ TimerTick
    \/ HideLoadingOverlay

\* WF_vars(TimerTick) with ENABLED <<TimerTick>>_vars written out: a tick can
\* happen, and changes state.i or clears the interval, exactly when one is armed
TickFairness == []<>(armed = {}) \/ []<><<TimerTick>>_vars

SpecPlayback == InitPlayback /\ [][NextPlayback]_vars /\ TickFairness

(***************************************************************************)
(* cluster_viz.js on its own: displayClusterSphere called with any year    *)
(* and k over sparse cluster data                                          *)
(***************************************************************************)
ClusterYears == { 1900, 1950 }
LookupYears == { 1890, 1900, 1925, 1950, 1975 }

\* year_clusters objects: a year may be absent, or hold any subset of the k
ClusterTables == UNION { [S -> SUBSET KOptions] : S \in SUBSET ClusterYears }

InitLookup ==
    /\ file = ExampleFile
    /\ state = [data |-> <<>>, i |-> -1, playing |-> FALSE, timer |-> 0,
                colorData |-> <<>>, seen |-> {}, instanceCount |-> 0,
                instancedSpheres |-> <<>>, isLoading |-> TRUE, isJumping |-> FALSE]
    /\ timeline = [resettingFromPlay |-> FALSE, sliderInitialized |-> FALSE]
    /\ \E table \in ClusterTables :
           clusterState = [isActive |-> FALSE, currentK |-> 6, currentYear |-> 0,
                           loaded |-> TRUE, year_clusters |-> table,
                           centroidMeshes |-> <<>>]
    /\ group = [current |-> FALSE, orphans |-> {}, centroids |-> FALSE]
    /\ armed = {}
    /\ pending = << [skipTimer |-> FALSE, caller |-> "init"] >>
    /\ timeouts = 0
    /\ dom = [playDisabled |-> TRUE, toggleText |-> "Show Clusters", kSelect |-> 16]
    /\ initPhase = "ready"
    /\ threw = FALSE

DisplayClusters(year, k) ==
    /\ Commit(displayClusterSphere(World, year, k))
    /\ UNCHANGED <<file, initPhase>>

CallDisplayClusterSphere ==
    \E year \in LookupYears, k \in KOptions : DisplayClusters(year, k)

SpecLookup == InitLookup /\ [][CallDisplayClusterSphere]_vars

(***************************************************************************)
(* The function-based pipeline of src/js/visualization.js (createUI,       *)
(* loadData, processYear, addYearColors, play, pause, reset, step): colors *)
(* are [r, g, b] arrays, a year's list may be sorted by chroma, and the    *)
(* dedup key is the quantized color.                                       *)
(***************************************************************************)
\* the settings of config.js that processYear reads, with the RGB-bucket
\* quantizer selected (quantizeColorHSL draws Math.random for every color)
CONFIG ==
    [colorDepth |-> 7, useHSLQuantization |-> FALSE,
     smartSampling |-> [enabled |-> TRUE, prioritizeChroma |-> TRUE]]

GrayRgb == <<10, 10, 10>>
RedRgb == <<200, 34, 30>>
RedNearRgb == <<201, 34, 30>>
DullRgb == <<100, 90, 80>>

RgbLists ==
    { <<GrayRgb, RedRgb, RedNearRgb>>, <<RedNearRgb, DullRgb, GrayRgb>>,
      <<DullRgb, RedRgb, DullRgb>> }

RgbRecordsAt(n) == { Rec(YearOf(n), cs) : cs \in RgbLists } \cup { Malformed(YearOf(n)) }

RECURSIVE RgbFiles(_)
RgbFiles(n) ==
    IF n = 0 THEN { <<>> }
    ELSE LET shorter == RgbFiles(n - 1)
         IN shorter \cup { Append(f, r) : f \in { g \in shorter : Len(g) = n - 1 },
                                          r \in RgbRecordsAt(n) }

Min(S) == CHOOSE x \in S : \A y \in S : x <= y

\* (1 - |2l - 1|) * s of rgbToHsl(r, g, b), times 255: max - min of the channels
Chroma(rgb) == Max({ rgb[1], rgb[2], rgb[3] }) - Min({ rgb[1], rgb[2], rgb[3] })

\* Array.prototype.sort with the comparator c2 - c1: descending chroma, stable
RECURSIVE InsertByChroma(_, _)
InsertByChroma(sorted, rgb) ==
    IF sorted = <<>> THEN << rgb >>
    ELSE IF Chroma(Head(sorted)) >= Chroma(rgb)
    THEN << Head(sorted) >> \o InsertByChroma(Tail(sorted), rgb)
    ELSE << rgb >> \o sorted

RECURSIVE SortInto(_, _)
SortInto(sorted, colors) ==
    IF colors = <<>> THEN sorted
    ELSE SortInto(InsertByChroma(sorted, Head(colors)), Tail(colors))

SortByChroma(colors) == SortInto(<<>>, colors)

\* quantizeColor rounding each channel to the nearest multiple of the factor
quantizeColorAt_Nearest(rgb, colorDepth) ==
    LET factor == 2 ^ (8 - colorDepth)
    IN [c \in 1..3 |-> ((rgb[c] + factor \div 2) \div factor) * factor]

\* the body of quantizeColor when CONFIG.colorDepth is colorDepth
quantizeColorAt(rgb, colorDepth) ==
    LET factor == 2 ^ (8 - colorDepth)
    IN << (rgb[1] \div factor) * factor, (rgb[2] \div factor) * factor,
          (rgb[3] \div factor) * factor >>

quantizeColor(rgb) == quantizeColorAt(rgb, CONFIG.colorDepth)

\* the loop of processYear ending at the first color whose key was seen
RECURSIVE ProcessQuantized_BreakOnSeen(_, _, _)
ProcessQuantized_BreakOnSeen(colors, seen, yearColors) ==
    IF colors = <<>> THEN <<seen, yearColors>>
    ELSE LET key == quantizeColor(Head(colors))
         IN IF key \in seen
            THEN <<seen, yearColors>>
            ELSE ProcessQuantized_BreakOnSeen(Tail(colors), seen \cup {key},
                                              Append(yearColors, [rgb |-> key]))

\* the loop of processYear over colors: acc = <<seen, yearColors>>
RECURSIVE ProcessQuantized(_, _, _)
ProcessQuantized(colors, seen, yearColors) ==
    IF colors = <<>> THEN <<seen, yearColors>>
    ELSE LET key == quantizeColor(Head(colors))
         IN IF key \in seen
            THEN ProcessQuantized(Tail(colors), seen, yearColors)
            ELSE ProcessQuantized(Tail(colors), seen \cup {key},
                                  Append(yearColors, [rgb |-> key]))

\* processYear(state.data[n]): `colors` is the record's own array unless the
\* record has none, so the sort reorders the record
visualization_processYear(w, n) ==
    LET yearData == w.state.data[n]
        colors == IF yearData.hasColor THEN yearData.color ELSE <<>>
        prioritized == CONFIG.smartSampling.enabled
                       /\ CONFIG.smartSampling.prioritizeChroma
        sorted == IF prioritized THEN SortByChroma(colors) ELSE colors
        res == ProcessQuantized(sorted, w.state.seen, <<>>)
    IN [w EXCEPT !.state.data[n] =
                     IF yearData.hasColor THEN [yearData EXCEPT !.color = sorted]
                     ELSE yearData,
                 !.state.seen = res[1],
                 !.state.colorData = @ \o res[2],
                 !.state.totalSpheres = @ + Len(res[2]),
                 !.yearColors = res[2]]

visualization_play(w) ==
    LET id == FreshTimer(w.armed)
    IN [w EXCEPT !.state.playing = TRUE, !.armed = @ \cup {id}, !.state.timer = id]

visualization_pause(w) ==
    [w EXCEPT !.state.playing = FALSE, !.armed = @ \ {w.state.timer}]

\* initVisualization after `await loadData()`
visualization_initVisualizationRest(w, loaded) ==
    setupShaderInstancedMesh([w EXCEPT !.state.data = loaded])

\* reset up to the await of the initVisualization() it starts
visualization_reset(w) ==
    LET w1 == visualization_pause(w)
    IN [w1 EXCEPT !.state.i = -1,
                  !.state.colorData = <<>>,
                  !.state.seen = {},
                  !.state.totalSpheres = 0,
                  !.state.instanceCount = 0,
                  !.group = [current |-> FALSE, orphans |-> {}, centroids |-> FALSE],
                  !.pending = Append(@, [skipTimer |-> FALSE, caller |-> "reset"])]

visualization_step(w) ==
    IF w.state.i >= Len(w.state.data) - 1 THEN visualization_pause(w)
    ELSE LET w1 == [w EXCEPT !.state.i = @ + 1]
             w2 == visualization_processYear(w1, w1.state.i + 1)
         IN addYearColors(w2, w2.yearColors)

\* the click listener of the play/pause button
visualization_click(w) ==
    IF ~w.state.playing
    THEN visualization_play(IF w.state.i >= Len(w.state.data) - 1
                            THEN visualization_reset(w) ELSE w)
    ELSE visualization_pause(w)

\* the state after module evaluation: createUI() has run and initVisualization()
\* is at its await
InitFunctions ==
    /\ file \in RgbFiles(MaxYears)
    /\ state = [data |-> <<>>, i |-> -1, playing |-> FALSE, timer |-> 0,
                colorData |-> <<>>, seen |-> {}, totalSpheres |-> 0,
                instanceCount |-> 0, instancedSpheres |-> <<>>]
    /\ timeline = [resettingFromPlay |-> FALSE, sliderInitialized |-> FALSE]
    /\ clusterState = [isActive |-> FALSE, currentK |-> 6, currentYear |-> 0,
                       loaded |-> FALSE, year_clusters |-> <<>>,
                       centroidMeshes |-> <<>>]
    /\ group = [current |-> FALSE, orphans |-> {}, centroids |-> FALSE]
    /\ armed = {}
    /\ pending = << [skipTimer |-> FALSE, caller |-> "init"] >>
    /\ timeouts = 0
    /\ dom = [playDisabled |-> FALSE, toggleText |-> "Show Clusters", kSelect |-> 16]
    /\ initPhase = "loading"
    /\ threw = FALSE

FunctionsLoadCompletes(k, loaded) ==
    /\ Commit(visualization_initVisualizationRest(
                  [World EXCEPT !.pending = RemoveAt(@, k)], loaded))
    /\ initPhase' = IF pending[k].caller = "init" THEN "ready" ELSE initPhase
    /\ UNCHANGED file

FunctionsLoadSucceeds == \E k \in 1..Len(pending) : FunctionsLoadCompletes(k, file)

\* fetch or response.json() rejects: loadData returns []
FunctionsLoadFails == \E k \in 1..Len(pending) : FunctionsLoadCompletes(k, <<>>)

FunctionsClick ==
    /\ Len(pending) < MaxPending
    /\ Commit(visualization_click(World))
    /\ UNCHANGED <<file, initPhase>>

\* an armed interval fires: step()
FunctionsTick ==
    /\ armed # {}
    /\ Commit(visualization_step(World))
    /\ UNCHANGED <<file, initPhase>>

NextFunctions ==
    \/ FunctionsLoadSucceeds
    \/ FunctionsLoadFails
    \/ FunctionsClick
    \/ FunctionsTick

SpecFunctions == InitFunctions /\ [][NextFunctions]_vars

(***************************************************************************)
(* The same pipeline with CONFIG.useHSLQuantization true (config.js 39).   *)
(* Fractions are pairs <<numerator, denominator>> with a positive          *)
(* denominator; every Math.random() call is an input of the step.          *)
(***************************************************************************)
\* Math.round of the fraction num / den
Round(num, den) == (2 * num + den) \div (2 * den)

Clamp(x, lo, hi) == IF x < lo THEN lo ELSE IF x > hi THEN hi ELSE x

\* results of Math.random(): 0 and 1/2
RandomDraws == { <<0, 1>>, <<1, 2>> }

\* the three draws of one quantizeColorHSL call: all low or all central
RandomTriples == { <<u, u, u>> : u \in RandomDraws }

rgbToHsl(rgb) ==
    LET max == Max({ rgb[1], rgb[2], rgb[3] })
        min == Min({ rgb[1], rgb[2], rgb[3] })
        d == max - min
        hue == IF max = rgb[1]
               THEN (rgb[2] - rgb[3]) + (IF rgb[2] < rgb[3] THEN 6 * d ELSE 0)
               ELSE IF max = rgb[2] THEN (rgb[3] - rgb[1]) + 2 * d
               ELSE (rgb[1] - rgb[2]) + 4 * d
    IN IF max = min
       THEN [h |-> <<0, 1>>, s |-> <<0, 1>>, l |-> <<max + min, 510>>]
       ELSE [h |-> <<hue, 6 * d>>,
             s |-> IF max + min > 255 THEN <<d, 510 - max - min>> ELSE <<d, max + min>>,
             l |-> <<max + min, 510>>]

\* hue2rgb(p, q, t) of hslToRgb times l[2] * s[2] * h[2]; p and q are over
\* l[2] * s[2] and t is tn / (3 * H)
hue2rgb(p, q, tn, H) ==
    LET t == IF tn < 0 THEN tn + 3 * H ELSE IF tn > 3 * H THEN tn - 3 * H ELSE tn
    IN IF 2 * t < H THEN p * H + (q - p) * 2 * t
       ELSE IF 2 * t < 3 * H THEN q * H
       ELSE IF t < 2 * H THEN p * H + (q - p) * (4 * H - 2 * t)
       ELSE p * H

hslToRgb(h, s, l) ==
    IF s[1] = 0
    THEN << Round(255 * l[1], l[2]), Round(255 * l[1], l[2]), Round(255 * l[1], l[2]) >>
    ELSE LET q == IF 2 * l[1] < l[2] THEN l[1] * (s[2] + s[1])
                  ELSE l[1] * s[2] + s[1] * l[2] - l[1] * s[1]
             p == 2 * l[1] * s[2] - q
             den == l[2] * s[2] * h[2]
         IN << Round(255 * hue2rgb(p, q, 3 * h[1] + h[2], h[2]), den),
               Round(255 * hue2rgb(p, q, 3 * h[1], h[2]), den),
               Round(255 * hue2rgb(p, q, 3 * h[1] - h[2], h[2]), den) >>

\* Math.round((x + (u - 0.5) * jitter) * steps) clamped to 0..steps, jitter = 1 / levels
QuantizeJittered(x, u, levels, steps) ==
    Clamp(Round(steps * (x[1] * 2 * u[2] * levels + x[2] * (2 * u[1] - u[2])),
                x[2] * 2 * u[2] * levels),
          0, steps)

\* quantizeColorHSL with its Math.random() calls returning 1/2
quantizeColorHSL_NoJitter(rgb, random) ==
    LET hsl == rgbToHsl(rgb)
        levels == 2 ^ CONFIG.colorDepth
        hueSteps == Round(16 * levels, 10)
        satSteps == Round(3 * levels, 4)
        lightSteps == Round(3 * levels, 4)
    IN hslToRgb(<<QuantizeJittered(hsl.h, <<1, 2>>, levels, hueSteps), hueSteps>>,
                <<QuantizeJittered(hsl.s, <<1, 2>>, levels, satSteps), satSteps>>,
                <<QuantizeJittered(hsl.l, <<1, 2>>, levels, lightSteps), lightSteps>>)

\* quantizeColorHSL(rgb) when its three Math.random() calls return `random`
quantizeColorHSL(rgb, random) ==
    LET hsl == rgbToHsl(rgb)
        levels == 2 ^ CONFIG.colorDepth
        hueSteps == Round(16 * levels, 10)
        satSteps == Round(3 * levels, 4)
        lightSteps == Round(3 * levels, 4)
    IN hslToRgb(<<QuantizeJittered(hsl.h, random[1], levels, hueSteps), hueSteps>>,
                <<QuantizeJittered(hsl.s, random[2], levels, satSteps), satSteps>>,
                <<QuantizeJittered(hsl.l, random[3], levels, lightSteps), lightSteps>>)

\* the loop of processYear with the HSL quantizer; randoms[n] are the draws of
\* the call for the n-th color
RECURSIVE ProcessQuantizedHSL(_, _, _, _)
ProcessQuantizedHSL(colors, randoms, seen, yearColors) ==
    IF colors = <<>> THEN <<seen, yearColors>>
    ELSE LET key == quantizeColorHSL(Head(colors), Head(randoms))
         IN IF key \in seen
            THEN ProcessQuantizedHSL(Tail(colors), Tail(randoms), seen, yearColors)
            ELSE ProcessQuantizedHSL(Tail(colors), Tail(randoms), seen \cup {key},
                                     Append(yearColors, [rgb |-> key]))

processYearHSL(w, n, randoms) ==
    LET yearData == w.state.data[n]
        colors == IF yearData.hasColor THEN yearData.color ELSE <<>>
        prioritized == CONFIG.smartSampling.enabled
                       /\ CONFIG.smartSampling.prioritizeChroma
        sorted == IF prioritized THEN SortByChroma(colors) ELSE colors
        res == ProcessQuantizedHSL(sorted, randoms, w.state.seen, <<>>)
    IN [w EXCEPT !.state.data[n] =
                     IF yearData.hasColor THEN [yearData EXCEPT !.color = sorted]
                     ELSE yearData,
                 !.state.seen = res[1],
                 !.state.colorData = @ \o res[2],
                 !.state.totalSpheres = @ + Len(res[2]),
                 !.yearColors = res[2]]

stepHSL(w, randoms) ==
    IF w.state.i >= Len(w.state.data) - 1 THEN visualization_pause(w)
    ELSE LET w1 == [w EXCEPT !.state.i = @ + 1]
             w2 == processYearHSL(w1, w1.state.i + 1, randoms)
         IN addYearColors(w2, w2.yearColors)

\* the longest color list of the files
ListLen == Max({ Len(colors) : colors \in RgbLists })

\* an armed interval fires: step(), whose quantizer calls draw `randoms`
HSLTick ==
    /\ armed # {}
    /\ \E randoms \in [1..ListLen -> RandomTriples] : Commit(stepHSL(World, randoms))
    /\ UNCHANGED <<file, initPhase>>

NextHSL ==
    \/ FunctionsLoadSucceeds
    \/ FunctionsLoadFails
    \/ FunctionsClick
    \/ HSLTick

\* files of at most two years
InitHSL == InitFunctions /\ Len(file) < MaxYears

SpecHSL == InitHSL /\ [][NextHSL]_vars

(***************************************************************************)
(* calculatePosition with CONFIG.jitter.enabled false.  A position is kept *)
(* as the quantities its coordinates are computed from: phi = phiOverPi *  *)
(* pi, theta = thetaOverTwoPi * 2 * pi, r = rOverRMax * R * sin(phi).      *)
(***************************************************************************)
\* CONFIG.grayscaleThreshold (0.025) and CONFIG.shells of config.js
grayscaleThreshold == <<1, 40>>
shells == 50

\* greyAngle(rgb) / (2 * pi)
greyAngle(rgb) == << (rgb[1] * 31 + rgb[2] * 17 + rgb[3] * 7) % 360, 360 >>

Less(a, b) == a[1] * b[2] < b[1] * a[2]

\* the fields of the returned object once isGrayscale is decided
Position(rgb, isGrayscale) ==
    LET hsl == rgbToHsl(rgb)
    IN [rgb |-> rgb, h |-> hsl.h, s |-> hsl.s, l |-> hsl.l,
        isGrayscale |-> isGrayscale,
        thetaOverTwoPi |-> IF isGrayscale THEN greyAngle(rgb) ELSE hsl.h,
        phiOverPi |-> << hsl.l[2] - hsl.l[1], hsl.l[2] >>,
        rOverRMax |-> IF isGrayscale THEN <<1, 10>> ELSE hsl.s,
        shell |-> ((hsl.s[2] - hsl.s[1]) * shells) \div hsl.s[2]]

\* calculatePosition(rgb) of config.js
calculatePosition(rgb) ==
    Position(rgb, Less(rgbToHsl(rgb).s, grayscaleThreshold))

\* a raw [r, g, b] array has neither an rgb nor an isGrayscale property
RawColor(rgb) == [rgb |-> rgb, isObject |-> FALSE, isGrayscale |-> FALSE]

\* calculatePosition(color) of part_007: isGrayscale is the argument's own
\* property, false when it has none
part_007_calculatePosition(color) ==
    Position(color.rgb, IF color.isObject THEN color.isGrayscale ELSE FALSE)

PositionChannels == { 0, 10, 126, 127, 128, 200, 255 }

PositionInputs == PositionChannels \X PositionChannels \X PositionChannels

\* a page whose file has one year with one color, nothing processed yet
InitPosition ==
    /\ \E rgb \in PositionInputs : file = << Rec(YearOf(1), << rgb >>) >>
    /\ state = [data |-> <<>>, i |-> -1, playing |-> FALSE, timer |-> 0,
                colorData |-> <<>>, seen |-> {}, instanceCount |-> 0,
                instancedSpheres |-> <<>>, isLoading |-> TRUE, isJumping |-> FALSE]
    /\ timeline = [resettingFromPlay |-> FALSE, sliderInitialized |-> FALSE]
    /\ clusterState = [isActive |-> FALSE, currentK |-> 6, currentYear |-> 0,
                       loaded |-> FALSE, year_clusters |-> <<>>,
                       centroidMeshes |-> <<>>]
    /\ group = [current |-> FALSE, orphans |-> {}, centroids |-> FALSE]
    /\ armed = {}
    /\ pending = << [skipTimer |-> FALSE, caller |-> "init"] >>
    /\ timeouts = 0
    /\ dom = [playDisabled |-> TRUE, toggleText |-> "Show Clusters", kSelect |-> 16]
    /\ initPhase = "loading"
    /\ threw = FALSE

\* const colorData = calculatePosition([r, g, b]) with the function of config.js
CallCalculatePosition ==
    /\ state' = [state EXCEPT !.colorData = << calculatePosition(file[1].color[1]) >>]
    /\ UNCHANGED <<file, timeline, clusterState, group, armed, pending, timeouts,
                   dom, initPhase, threw>>

\* the same call with the function of part_007
CallCalculatePositionPart007 ==
    /\ state' = [state EXCEPT !.colorData =
                     << part_007_calculatePosition(RawColor(file[1].color[1])) >>]
    /\ UNCHANGED <<file, timeline, clusterState, group, armed, pending, timeouts,
                   dom, initPhase, threw>>

NextPosition ==
    \/ CallCalculatePosition
    \/ CallCalculatePositionPart007

SpecPosition == InitPosition /\ [][NextPosition]_vars

(***************************************************************************)
(* Claims                                                                  *)
(***************************************************************************)
Idle == pending = <<>>

LastIndex == Len(state.data) - 1

\* the dedup keys of the colors of data[0..i]
KeysUpTo(data, i) ==
    UNION { { ColorKey(data[n].color[m]) : m \in 1..Len(data[n].color) } :
            n \in { n \in DOMAIN data : n <= i + 1 } }

SampleKeys(colorData) == { colorData[n].rgb : n \in 1..Len(colorData) }

\* a timeline just loaded with `data`, after n plain step() calls
RECURSIVE Steps(_, _)
Steps(w, n) == IF n = 0 THEN w ELSE Steps(step([w EXCEPT !.threw = FALSE]), n - 1)

Fresh(data) ==
    [World EXCEPT !.state.data = data, !.state.i = -1, !.state.colorData = <<>>,
                  !.state.seen = {}, !.state.instanceCount = 0,
                  !.state.instancedSpheres = << NewMesh >>]

Replay(data, t) == Steps(Fresh(data), t + 1).state

\* the transition calls jumpToYear(t), directly or from the slider
JumpsTo(t) ==
    \/ JumpTo(t)
    \/ \E y \in SliderYears : FindIndex(state.data, y) = t /\ SliderTo(y)

\* the transition runs step() once, from the timer or directly
StepRuns == TimerTick \/ CallStep

\* the transition runs the asynchronous reset(): directly, from the play button
\* at the end of the timeline, or inside play() at the end of the timeline
ResetRuns ==
    \/ CallReset
    \/ ~state.playing /\ state.i >= LastIndex /\ (ClickPlayPause \/ CallPlay)

\* C1: whenever no operation is in progress, state.seen and the samples of
\* state.colorData are exactly the keys of the colors of data[0..i]
C1_ContentMatchesCursor ==
    Idle => /\ state.seen = KeysUpTo(state.data, state.i)
            /\ SampleKeys(state.colorData) = KeysUpTo(state.data, state.i)

\* the positions of `colors` whose key is not in `seen` and occurs at no earlier
\* position, and the samples of those positions in list order
FirstNewPositions(colors, seen) ==
    { m \in 1..Len(colors) :
        /\ ColorKey(colors[m]) \notin seen
        /\ \A m2 \in 1..(m - 1) : ColorKey(colors[m2]) # ColorKey(colors[m]) }

FirstNewSamples(colors, seen) ==
    LET P == FirstNewPositions(colors, seen)
        nth(n) == CHOOSE q \in P : Cardinality({ r \in P : r <= q }) = n
    IN [n \in 1..Cardinality(P) |-> [rgb |-> ColorKey(colors[nth(n)])]]

OneSamplePerKey ==
    /\ \A a, b \in 1..Len(state.colorData) :
           state.colorData[a].rgb = state.colorData[b].rgb => a = b
    /\ SampleKeys(state.colorData) = state.seen

StepAppendsFirstOccurrences ==
    (StepRuns /\ state.i < LastIndex) =>
        LET yearData == state.data[state.i + 2]
        IN state'.colorData = state.colorData \o
               (IF yearData.hasColor THEN FirstNewSamples(yearData.color, state.seen)
                ELSE <<>>)

\* C2: a color whose key is already in the seen set appends no sample: the sample
\* list always holds exactly one sample per seen key, and a step appends, in list
\* order, a sample for the first occurrence of each key that was not yet seen
C2_OneSamplePerDistinctKey ==
    [] OneSamplePerKey /\ [][StepAppendsFirstOccurrences]_vars

\* two occurrences of Gray in year 0, and Gray (with a high byte) again in year 1
C2_Witness ==
    state.data = ExampleFile /\ state.i = 1 /\ Len(state.colorData) = 3

\* C3: a backward jumpToYear(t) leaves cursor = t and the dedup set and the sample
\* list with the keys (and the count) of t+1 plain steps of a fresh timeline
C3_BackwardJumpEqualsReplay ==
    [][\A t \in 0..(MaxYears - 1) :
          (t < state.i /\ JumpsTo(t)) =>
              /\ state'.i = t
              /\ state'.seen = Replay(state.data, t).seen
              /\ SampleKeys(state'.colorData) = SampleKeys(Replay(state.data, t).colorData)
              /\ state'.instanceCount = Replay(state.data, t).instanceCount]_vars

Grows ==
    /\ state.seen \subseteq state'.seen
    /\ Len(state.colorData) <= Len(state'.colorData)
    /\ state.instanceCount <= state'.instanceCount

\* C4: steps and forward or same-index jumps only grow the dedup set and the
\* counts; keys are removed only by a transition that runs reset(), which leaves
\* nothing (or, in a backward jump to t, only what the replay of data[0..t] admits)
C4_GrowsUntilReset ==
    /\ [][(StepRuns \/ \E t \in 0..(MaxYears - 1) : state.i <= t /\ JumpsTo(t))
              => Grows]_vars
    /\ [][Grows
          \/ /\ ResetRuns
             /\ state'.seen = {}
             /\ state'.colorData = <<>>
             /\ state'.instanceCount = 0
          \/ \E t \in 0..(MaxYears - 1) :
                /\ t < state.i
                /\ JumpsTo(t)
                /\ state'.seen \subseteq KeysUpTo(state.data, t)
                /\ state'.instanceCount = Cardinality(state'.seen)]_vars

\* play() at the end of the example timeline has just emptied the store: the
\* disposed mesh still holds the samples that were dropped
C4_Witness ==
    /\ \E k \in 1..Len(pending) : pending[k].caller = "play"
    /\ state.data = ExampleFile
    /\ state.seen = {}
    /\ state.instanceCount = 0
    /\ state.instancedSpheres # <<>>
    /\ state.instancedSpheres[1].buf[1] # <<>>

\* C5: seen.size, colorData.length and instanceCount are equal whenever a handler
\* has returned
C5_SizesAgree ==
    /\ Cardinality(state.seen) = Len(state.colorData)
    /\ Len(state.colorData) = state.instanceCount

\* more samples than the instanced buffers have slots
C5_Witness ==
    state.instanceCount > MaxInstances /\ Cardinality(state.seen) = 3

KeysOf(yearData) == { ColorKey(yearData.color[m]) : m \in 1..Len(yearData.color) }

StepContract ==
    StepRuns =>
        IF state.i < LastIndex
        THEN /\ state'.i = state.i + 1
             /\ state'.seen = state.seen \cup KeysOf(state.data[state.i + 2])
        ELSE /\ state'.i = state.i
             /\ state'.seen = state.seen
             /\ state'.colorData = state.colorData
             /\ state'.instanceCount = state.instanceCount
             /\ ~state'.playing
             /\ state'.timer = 0
             /\ armed' = {}

CursorInRange == state.i \in -1..LastIndex

\* C6: a step below the last index moves the cursor by one and admits that
\* year's new keys; a step at the last index changes nothing and leaves the
\* timeline paused with no timer; the cursor is always within -1..lastIndex
C6_StepContractAndRange == [] CursorInRange /\ [][StepContract]_vars

\* C7: a forward jumpToYear(t), cursor <= t, does what t - cursor plain steps do
\* and nothing else: it ends with cursor = t, starts no reload, keeps the mesh
\* and every existing sample in its place, and changes nothing when t = cursor
C7_ForwardJumpIsSteps ==
    [][\A t \in 0..(MaxYears - 1) :
          (state.i <= t /\ JumpsTo(t)) =>
              LET r == Steps(World, t - state.i).state
              IN /\ state'.i = t
                 /\ state'.seen = r.seen
                 /\ state'.colorData = r.colorData
                 /\ state'.instanceCount = r.instanceCount
                 /\ state'.instancedSpheres = r.instancedSpheres
                 /\ state'.data = state.data
                 /\ pending' = pending
                 /\ group' = group
                 /\ SubSeq(state'.colorData, 1, Len(state.colorData)) = state.colorData
                 /\ state.seen \subseteq state'.seen]_vars

ReadyAfterReset ==
    /\ ~state.playing
    /\ state.timer = 0
    /\ armed = {}
    /\ state.i = -1
    /\ state.instanceCount = 0
    /\ state.seen = {}
    /\ ~group.centroids
    /\ ~clusterState.isActive

\* C8: when a reset() that nothing else overlapped completes its reload, the
\* timeline is Ready: not playing, no timer, cursor -1, empty store and dedup
\* set, no centroid shown and the overlay not marked active
C8_ResetLeavesReady ==
    [][(/\ Len(pending) = 1
        /\ pending[1].caller = "reset"
        /\ ~state.playing
        /\ (LoadCompletes(1, file) \/ LoadCompletes(1, <<>>))) => ReadyAfterReset']_vars

PlayCalled == CallPlay \/ ClickPlayPause

\* C9: play() while paused at the last index resets (cursor -1, empty store and
\* dedup set) and enters Playing only when its reload completes, still at cursor
\* -1 with an empty store so that the ticks replay from year 0; play() while
\* paused at any other cursor starts the timer and changes no data
C9_PlayAtEndReplaysFromStart ==
    [][/\ (PlayCalled /\ ~state.playing /\ state.i = LastIndex) =>
              /\ state'.i = -1
              /\ state'.seen = {}
              /\ state'.colorData = <<>>
              /\ state'.instanceCount = 0
       /\ \A k \in 1..Len(pending) :
              (pending[k].caller = "play"
                 /\ (LoadCompletes(k, file) \/ LoadCompletes(k, <<>>))) =>
                  /\ state'.playing
                  /\ armed' # {}
                  /\ state'.i = -1
                  /\ state'.seen = {}
                  /\ state'.instanceCount = 0
       /\ (PlayCalled /\ ~state.playing /\ state.i # LastIndex) =>
              /\ state'.playing
              /\ armed' # {}
              /\ state'.i = state.i
              /\ state'.seen = state.seen
              /\ state'.colorData = state.colorData
              /\ state'.instanceCount = state.instanceCount]_vars

PauseContract ==
    LET p == pause(World)
    IN /\ ~p.state.playing
       /\ p.state.timer = 0
       /\ p.armed = {}
       /\ p.state.i = state.i
       /\ p.state.seen = state.seen
       /\ p.state.colorData = state.colorData
       /\ p.state.instanceCount = state.instanceCount
       /\ pause(p) = p

\* C10: pause() leaves playing = false and no timer armed, changes no data and
\* is idempotent; and once the timeline is paused with no timer (and no play()
\* is waiting for its reload), no timer is armed again by anything but a call
\* of play()
C10_PausedUntilPlay ==
    /\ [] PauseContract
    /\ [][(/\ initPhase # "loading"
           /\ ~state.playing
           /\ armed = {}
           /\ \A k \in 1..Len(pending) : pending[k].caller # "play"
           /\ ~PlayCalled) => (armed' = {} /\ ~state'.playing)]_vars

\* the transition completes the initial load, nothing else being in flight
InitialLoadCompletes ==
    /\ Len(pending) = 1
    /\ pending[1].caller = "init"
    /\ (LoadCompletes(1, file) \/ LoadCompletes(1, <<>>))

\* C11: when the initial load completes the timeline is Ready: cursor -1, empty
\* store and dedup set, not playing and no interval timer armed, so that no
\* step happens before play() is called
C11_InitialLoadLeavesReady ==
    [][InitialLoadCompletes =>
          /\ state'.i = -1
          /\ state'.seen = {}
          /\ state'.colorData = <<>>
          /\ state'.instanceCount = 0
          /\ ~state'.playing
          /\ armed' = {}]_vars

\* the years of the cluster data that are not after `year`
EntriesUpTo(year) == { y \in DOMAIN clusterState.year_clusters : y <= year }

LookupResolvesYear(year, k) ==
    LET found == getYearClusters(clusterState, year, k)
    IN /\ found # <<>> =>
             /\ found[1] <= year
             /\ found[1] \in EntriesUpTo(year)
             /\ \A y \in EntriesUpTo(year) : y <= found[1]
             /\ year \in EntriesUpTo(year) => found[1] = year
             /\ found[2] = k
       /\ EntriesUpTo(year) = {} => found = <<>>

\* C12: getYearClusters(year, k) never returns a snapshot stored under a later
\* year: a snapshot it returns is the one of the requested year if that year
\* has an entry, else of the greatest earlier year that has one, and it returns
\* null when no year <= the requested one has an entry
C12_LookupNeverLooksAhead ==
    \A year \in LookupYears, k \in KOptions : LookupResolvesYear(year, k)

\* entries only for 1900 and 1950: displaying 1925 with k = 8 shows the snapshot
\* of 1900
C12_Witness ==
    /\ DOMAIN clusterState.year_clusters = { 1900, 1950 }
    /\ clusterState.currentYear = 1925
    /\ clusterState.centroidMeshes = <<1900, 8>>
    /\ getYearClusters(clusterState, 1890, 8) = <<>>

\* C13: over sparse cluster data getYearClusters(year, k) returns null only when
\* no year <= the requested one has a snapshot for k
C13_NullOnlyWithoutData ==
    \A year \in LookupYears, k \in KOptions :
        getYearClusters(clusterState, year, k) = <<>> =>
            ~ \E y \in EntriesUpTo(year) : k \in clusterState.year_clusters[y]

\* C14: the store never holds more samples than the capacity of its buffers:
\* the count never exceeds the capacity and every admitted sample has a slot
C14_CapacityRespected ==
    /\ state.instanceCount <= MaxInstances
    /\ Len(state.colorData) <= MaxInstances
    /\ state.instancedSpheres # <<>> => state.instancedSpheres[1].count <= MaxInstances

\* the transition runs step() onto a year record that has no color field
StepsOntoMalformed ==
    /\ StepRuns
    /\ state.i < LastIndex
    /\ ~state.data[state.i + 2].hasColor

\* C15: a step onto a year record without a color field advances the cursor by
\* one, leaves store and dedup set unchanged and raises no error
C15_MissingColorIsEmptyYear ==
    [][StepsOntoMalformed =>
          /\ state'.i = state.i + 1
          /\ state'.seen = state.seen
          /\ state'.colorData = state.colorData
          /\ state'.instanceCount = state.instanceCount
          /\ ~threw']_vars

EmptyDataset == state.data = <<>>

\* C16: a failed load yields the empty dataset, and with the empty dataset the
\* timeline is inert: cursor -1 and count 0 whatever tick, play(), pause() or
\* reset() has run, a tick pauses the timeline, and no such operation throws
C16_EmptyDatasetIsInert ==
    /\ [](EmptyDataset => (state.i = -1 /\ state.instanceCount = 0))
    /\ [][(\E k \in 1..Len(pending) : LoadCompletes(k, <<>>)) => EmptyDataset']_vars
    /\ [][(EmptyDataset /\ TimerTick) => (~state'.playing /\ armed' = {})]_vars
    /\ [][(EmptyDataset /\ (TimerTick \/ ClickPlayPause \/ CallPlay \/ CallPause \/ CallReset))
              => ~threw']_vars

\* what a render tick reads: the instanced mesh that is in the group, if any
MeshInGroup == IF group.current THEN state.instancedSpheres ELSE <<>>

\* the mesh is as created, or its count is the number of samples that the
\* completed steps have appended
HoldsWholeSteps(mesh) ==
    \/ mesh = NewMesh
    \/ /\ mesh.count = state.instanceCount
       /\ mesh.count = Len(state.colorData)
       /\ mesh.count = Cardinality(state.seen)

LiveBufferHoldsSeen ==
    /\ MeshInGroup # <<>>
    /\ \A key \in state.seen :
           \E n \in 1..state.instanceCount :
               n \in DOMAIN MeshInGroup[1].buf /\ MeshInGroup[1].buf[n] = key

\* the transition completes the reload of a reset() or of a play()
ReloadCompletes ==
    \E k \in 1..Len(pending) :
        /\ pending[k].caller # "init"
        /\ (LoadCompletes(k, file) \/ LoadCompletes(k, <<>>))

\* C18: whatever ticks and slider jumps ran while a reset() was awaiting its
\* load, the instanced buffer that is live once the load has completed holds a
\* written sample for every key of the dedup set
C18_NoRaceOnStore == [][ReloadCompletes => LiveBufferHoldsSeen']_vars

\* the records the page holds are the records of the file it loaded
RecordsAsLoaded == \A n \in DOMAIN state.data : state.data[n] = file[n]

\* C19: no timeline operation modifies a loaded year record: whatever steps and
\* resets have run, each record's year and the contents and order of its color
\* list are those of the file, also with chroma prioritization enabled
C19_RecordsUnchanged == RecordsAsLoaded

\* the dedup set and the new samples of a year list processed after `seen`
KeysInListOrder(colors, seen) == ProcessQuantized(colors, seen, <<>>)
KeysInChromaOrder(colors, seen) == ProcessQuantized(SortByChroma(colors), seen, <<>>)

\* the year lists at hand: those of the files and those the page holds
YearLists == RgbLists \cup { state.data[n].color : n \in DOMAIN state.data }

\* C20: with RGB-bucket quantization, a year list processed in descending chroma
\* order leaves the same dedup keys, and as many new samples, as the list
\* processed in list order, for every year list and every prior dedup set
C20_ChromaOrderKeepsKeys ==
    \A colors \in YearLists :
        /\ KeysInChromaOrder(colors, state.seen)[1] = KeysInListOrder(colors, state.seen)[1]
        /\ Len(KeysInChromaOrder(colors, state.seen)[2])
               = Len(KeysInListOrder(colors, state.seen)[2])

\* steps have filled the dedup set, and a year list that the sort reorders has
\* a key in it, a key new to it, and two colors sharing a key
C20_Witness ==
    /\ state.i >= 0
    /\ state.seen # {}
    /\ \E colors \in YearLists :
           /\ SortByChroma(colors) # colors
           /\ \E n \in DOMAIN colors : quantizeColor(colors[n]) \in state.seen
           /\ KeysInListOrder(colors, state.seen)[2] # <<>>
           /\ \E n, m \in DOMAIN colors :
                  n # m /\ colors[n] # colors[m]
                  /\ quantizeColor(colors[n]) = quantizeColor(colors[m])

\* the values of a color channel and the color depths quantizeColor is defined for
Channels == 0..255
Depths == 1..8

\* the colors of the loaded file
FileColors == UNION { { file[n].color[m] : m \in DOMAIN file[n].color } : n \in DOMAIN file }

\* q is the largest multiple of 2^(8 - depth) that is <= c
LargestMultipleBelow(q, c, depth) ==
    LET factor == 2 ^ (8 - depth)
    IN /\ q % factor = 0
       /\ q <= c
       /\ c < q + factor

\* quantizeColor on every channel value at every depth
QuantizeContract ==
    \A depth \in Depths, c \in Channels :
        LET q == quantizeColorAt(<<c, c, 255 - c>>, depth)
        IN /\ LargestMultipleBelow(q[1], c, depth)
           /\ LargestMultipleBelow(q[3], 255 - c, depth)
           /\ q[2] = q[1]
           /\ \A n \in 1..3 : q[n] \in Channels
           /\ quantizeColorAt(q, depth) = q
           /\ (depth = 8 => q = <<c, c, 255 - c>>)

\* C21: quantizeColor maps each channel c of 0..255 to the largest multiple of
\* 2^(8 - depth) that is <= c; the result stays in 0..255, a quantized color is
\* a fixed point, depth 8 is the identity; and the keys the steps have put
\* into the dedup set are such quantizations of colors of the file
C21_QuantizeIsFloorToBucket ==
    /\ QuantizeContract
    /\ \A key \in state.seen :
           /\ quantizeColor(key) = key
           /\ \A n \in 1..3 : key[n] \in Channels
           /\ \E rgb \in FileColors :
                  \A n \in 1..3 : LargestMultipleBelow(key[n], rgb[n], CONFIG.colorDepth)

\* a step has quantized a color of the file to a key that differs from it
C21_Witness ==
    /\ state.i >= 0
    /\ \E rgb \in FileColors : quantizeColor(rgb) # rgb /\ quantizeColor(rgb) \in state.seen

\* the colors of the year lists
RgbColors == UNION { { colors[n] : n \in DOMAIN colors } : colors \in RgbLists }

\* the keys quantizeColorHSL can return for a color
HSLKeys(rgb) == { quantizeColorHSL(rgb, random) : random \in RandomTriples }

\* C22: under HSL-bucket quantization two calls of the quantizer on one color
\* can return different keys, and two passes over one year list from the empty
\* store can end with different key sets; the dedup set holds only keys some
\* call can return for a color of the file, and it may hold more than one per
\* color
C22_HSLKeysVary ==
    /\ \E rgb \in RgbColors : Cardinality(HSLKeys(rgb)) > 1
    /\ \E colors \in RgbLists, first, replay \in [1..ListLen -> RandomTriples] :
           ProcessQuantizedHSL(colors, first, {}, <<>>)[1]
               # ProcessQuantizedHSL(colors, replay, {}, <<>>)[1]
    /\ \A key \in state.seen : \E rgb \in FileColors : key \in HSLKeys(rgb)

\* one color of the file has been admitted under two keys that no other color
\* of the file can produce
C22_Witness ==
    \E rgb \in FileColors :
        \E k1, k2 \in HSLKeys(rgb) :
            /\ k1 # k2
            /\ { k1, k2 } \subseteq state.seen
            /\ \A other \in FileColors \ { rgb } : HSLKeys(other) \cap { k1, k2 } = {}
            /\ Len(state.colorData) > Cardinality(FileColors)

\* a sample of a color whose saturation is below the grayscale threshold is
\* marked grayscale and lies at 0.1 of rMax from the axis
GrayscalePlaced(sample) ==
    Less(rgbToHsl(sample.rgb).s, grayscaleThreshold)
        => sample.isGrayscale /\ sample.rOverRMax = <<1, 10>>

\* C23: with jitter disabled, calculatePosition gives every RGB triple whose
\* HSL saturation is below the grayscale threshold the horizontal radius
\* 0.1 * rMax, whatever its hue, and marks it as grayscale
C23_GrayscaleAtFixedRadius ==
    \A n \in DOMAIN state.colorData : GrayscalePlaced(state.colorData[n])

\* C24: at most one stepping interval is armed at any time, and it is the one
\* state.timer names; play() while playing changes nothing and arms no timer
C24_AtMostOneTimer ==
    /\ Cardinality(armed) <= 1
    /\ armed \subseteq { state.timer }
    /\ state.playing => play(World) = World

\* the timer has been armed again after an earlier one was cleared, while a
\* reload started by the play button is still in flight
C24_Witness ==
    /\ Cardinality(armed) = 1
    /\ state.playing
    /\ \E k \in 1..Len(pending) : pending[k].caller = "play"

Finished == ~state.playing /\ armed = {} /\ state.timer = 0 /\ state.i = LastIndex

\* C25: with the interval firing and no user input, a timeline playing over a
\* non-empty dataset ends Finished; it becomes Finished only by a tick that
\* finds it playing with the cursor at the last year, that tick leaves the
\* cursor where it is, and Finished it stays
C25_PlaybackFinishes ==
    /\ (state.playing /\ state.data # <<>>) ~> Finished
    /\ [][(~Finished /\ Finished') => (state.playing /\ state.i = LastIndex)]_vars
    /\ [][(state.playing /\ state.i = LastIndex /\ TimerTick)
              => (Finished' /\ state'.i = state.i)]_vars
    /\ [][Finished => Finished']_vars

\* playback over more than one year has ended at the last year
C25_Witness == Finished /\ state.i > 0 /\ Cardinality(state.seen) > 1

\* jumpToYear(index) runs with index before the cursor
BackwardJump == \E index \in 0..(MaxYears - 1) : index < state.i /\ JumpTo(index)

\* C26: a backward jumpToYear resets synchronously in jumping mode: it starts
\* no load and arms no timer, and it leaves playing false; state.isJumping is
\* false whenever a handler starts or has returned
C26_JumpResetsSynchronously ==
    /\ [](~state.isJumping)
    /\ [][BackwardJump => /\ pending' = pending
                          /\ armed' = {}
                          /\ ~state'.playing
                          /\ state'.timer = 0
                          /\ state'.data = state.data]_vars

\* the timeline rests before the last year with a non-empty store, no timer and
\* no load in flight, as a backward jump leaves it
C26_Witness ==
    /\ timeline.sliderInitialized
    /\ pending = <<>>
    /\ ~state.playing
    /\ armed = {}
    /\ state.i >= 0
    /\ state.i < LastIndex
    /\ state.seen # {}
    /\ ~threw

\* C27: between two tasks state.playing is true exactly when an interval is
\* armed, and the armed interval is the one state.timer names
C27_PlayingIffTimerArmed ==
    /\ state.playing <=> armed # {}
    /\ state.playing <=> state.timer # 0

\* a step() that advances the cursor
StepAdvances == state.i < LastIndex /\ CallStep

\* the overlay shows a snapshot for the year under the cursor
OverlayRefreshed(cs, st) ==
    /\ cs.isActive
    /\ st.i + 1 \in DOMAIN st.data
    /\ cs.currentYear = st.data[st.i + 1].year

\* C28: a step() taken while the cluster overlay is active leaves it active
\* and showing the year it stepped onto, also when that year has no
\* snapshot for the current k
C28_OverlayStaysActive ==
    [][(clusterState.isActive /\ StepAdvances /\ ~threw')
          => OverlayRefreshed(clusterState', state')]_vars

\* the estimate initVisualization passes to setupShaderInstancedMesh
capacity == 2000000

\* the keys `${r},${g},${b}` ColorProcessor.processYear can build from a packed
\* color: each component is (packedColor >> shift) & 255
PackedKeyCount == Cardinality(Channels) * Cardinality(Channels) * Cardinality(Channels)

\* the values quantizeColor can return for one channel
ChannelBuckets(colorDepth) ==
    { quantizeColorAt(<<c, c, c>>, colorDepth)[1] : c \in Channels }

\* the keys quantizeColor(rgb).join(",") can build
BucketKeyCount(colorDepth) ==
    LET n == Cardinality(ChannelBuckets(colorDepth)) IN n * n * n

\* C29: the preallocated capacity covers every key either key policy can
\* produce, and the count of admitted samples never exceeds the capacity
C29_CapacityCoversKeys ==
    /\ capacity >= PackedKeyCount
    /\ capacity >= BucketKeyCount(CONFIG.colorDepth)
    /\ state.instanceCount <= MaxInstances

\* index is the smallest index of data whose record year is at least targetYear
SmallestIndexFrom(data, index, targetYear) ==
    /\ index + 1 \in DOMAIN data
    /\ data[index + 1].year >= targetYear
    /\ \A n \in 1..index : data[n].year < targetYear

NoRecordFrom(data, targetYear) == \A n \in DOMAIN data : data[n].year < targetYear

\* C30: a slider seek to a year moves the cursor to the smallest index whose
\* record year is at least that year and leaves playback paused; a seek to a
\* year no record reaches changes nothing
C30_SeekMovesToFirstYearFrom ==
    [][\A targetYear \in SliderYears :
          SliderTo(targetYear) =>
              IF NoRecordFrom(state.data, targetYear)
              THEN UNCHANGED <<state, armed, pending, timeline, group>>
              ELSE /\ SmallestIndexFrom(state'.data, state'.i, targetYear)
                   /\ ~state'.playing
                   /\ armed' = {}
                   /\ state'.timer = 0]_vars

====
